---- MODULE Spec2Model ----
(***************************************************************************)
(* Reminder bot (src/telegram_bot.py): the per-user task store, the job    *)
(* queue of one-shot reminders, the two timezone conversations and the     *)
(* handlers that mutate them.                                              *)
(*                                                                         *)
(* Scheduling model.  The application processes updates one at a time and  *)
(* every handler changes state in a single block of code without an await  *)
(* inside it, so a handler is one action.  The oracle calls are blocking   *)
(* calls: time passes during them (the clock advances inside the action)   *)
(* but nothing else runs.  Job callbacks (send_reminder) are independent   *)
(* coroutines: a callback suspends while the message is being delivered,   *)
(* so it is two actions (FireJob, FinishReminder) that interleave with     *)
(* the handlers and with each other.                                       *)
(***************************************************************************)
EXTENDS Integers, FiniteSets, Sequences, TLC

\* ---------------------------------------------------------------- bounds
MaxClock == 2
MaxTasks == 1
MaxOracleDelay == 1
MaxRunning == 2
MaxStored == 3

\* ------------------------------------------------------------- constants
ASK_CITY == 1
POST_TIMEZONE_SET == 2
CHANGE_TIMEZONE == 3
END == -1

Users == {"u1", "u2"}
None == "None"
NoTask == 0
TaskIds == 1..MaxTasks

\* ------------------------------------------------------------------ time
\* pytz.all_timezones, cut down to three zones: one without offset, one with
\* a fixed offset and one whose offset changes (daylight saving) at instant 2.
AllTimezones == {"UTC", "Europe/Paris", "America/New_York"}

\* utcoffset of a zone at a UTC instant (pytz's fromutc).
UtcOffset(zone, utc) ==
    CASE zone = "UTC" -> 0
      [] zone = "America/New_York" -> -1
      [] zone = "Europe/Paris" -> IF utc < 2 THEN 1 ELSE 2
      [] OTHER -> 0

\* The standard (non-DST) offset of a zone.
StdOffset(zone) == UtcOffset(zone, 0)

\* An aware datetime: wall clock, utcoffset of its tzinfo, and the zone.
\* Its absolute instant is local - off (what comparison and subtraction of
\* aware datetimes use).
Instant(dt) == dt.local - dt.off

\* datetime.now(tz), and utc_dt.astimezone(tz): the instant in tz's wall clock.
FromUtc(utc, zone) ==
    [local |-> utc + UtcOffset(zone, utc), off |-> UtcOffset(zone, utc), zone |-> zone]

\* A plausible slip: stopping at the UTC time (the first astimezone only).
AstimezoneUtc(dt, zone) == [local |-> dt.local - dt.off, off |-> 0, zone |-> "UTC"]

\* A plausible slip: re-labelling the wall clock with the new zone
\* (datetime.replace(tzinfo=...)) instead of converting the instant.
AstimezoneReplace(dt, zone) ==
    [local |-> dt.local, off |-> StdOffset(zone), zone |-> zone]

\* task['time'].astimezone(pytz.utc).astimezone(new_timezone)
Astimezone(dt, zone) ==
    LET task_time_utc == [local |-> dt.local - dt.off, off |-> 0, zone |-> "UTC"]
    IN  FromUtc(task_time_utc.local, zone)

\* user_timezone.localize(naive) with is_dst=False: the offset under which the
\* wall clock is a real local time of the zone; the standard offset when the
\* wall clock falls in a gap or is ambiguous.
Localize(naive, zone) ==
    LET offs == {o \in {UtcOffset(zone, u) : u \in (naive - 3)..(naive + 3)} :
                    UtcOffset(zone, naive - o) = o}
        off == IF Cardinality(offs) = 1 THEN CHOOSE o \in offs : TRUE
               ELSE StdOffset(zone)
    IN  [local |-> naive, off |-> off, zone |-> zone]

\* A plausible slip: the difference of the wall clocks.
SecondsNaive(a, b) == a.local - b.local

\* when=(a - b).total_seconds()
Seconds(a, b) == Instant(a) - Instant(b)

\* ---------------------------------------------------------------- oracle
\* Text is a tuple of tokens.  A reply to the timezone query is the oracle's
\* content (quote characters, blanks and one name token) or an error.
Strip(s, c) ==
    LET RECURSIVE DropHead(_), DropTail(_)
        DropHead(t) == IF t # <<>> /\ Head(t) = c THEN DropHead(Tail(t)) ELSE t
        DropTail(t) == IF t # <<>> /\ t[Len(t)] = c
                       THEN DropTail(SubSeq(t, 1, Len(t) - 1)) ELSE t
    IN  DropTail(DropHead(s))

TimezoneReplies ==
    { [error |-> TRUE, content |-> <<>>],
      [error |-> FALSE, content |-> <<"Unknown">>],
      [error |-> FALSE, content |-> <<"UTC">>],
      [error |-> FALSE, content |-> <<" ", "Europe/Paris", " ">>],
      [error |-> FALSE, content |-> <<"\"", "America/New_York", "\"">>],
      [error |-> FALSE, content |-> <<"'", "Europe/Paris", "'">>],
      [error |-> FALSE, content |-> <<"'", "\"", "UTC", "\"", "'">>] }

\* A plausible slip: returning the stripped reply without the membership test.
get_timezone_unchecked(reply) ==
    IF reply.error THEN None
    ELSE LET timezone == Strip(Strip(Strip(Strip(reply.content, " "), "\""), "'"), " ")
         IN  IF timezone # <<>> THEN timezone[1] ELSE None

\* get_timezone_via_gpt: the reply stripped of blanks and quotes, accepted only
\* when it is a canonical zone; None otherwise and on any exception.
get_timezone_via_gpt(reply) ==
    IF reply.error THEN None
    ELSE LET content == Strip(reply.content, " ")
             timezone == Strip(Strip(Strip(content, "\""), "'"), " ")
         IN  IF Len(timezone) = 1 /\ timezone[1] \in AllTimezones
             THEN timezone[1] ELSE None

\* JSON values as the extraction query returns them.
NullV == [type |-> "null", text |-> <<>>, num |-> 0]
Str(t) == [type |-> "str", text |-> t, num |-> 0]
Num(n) == [type |-> "num", text |-> <<>>, num |-> n]

\* <<"ts", n>> is the text "YYYY-MM-DD HH:MM:SS" of wall clock n.
NaiveTimes == 1..MaxClock
Descriptions == {<<"call Alice">>}
TimeValues == {NullV, Num(5), Str(<<"tomorrow">>)}
                \cup {Str(<<"ts", n>>) : n \in NaiveTimes}

\* kind: "error" (the call raised), "not_json", "json_other" (valid JSON that
\* is no object), "object" (task/time hold the fields; NullV when missing).
Object(task, time) == [kind |-> "object", task |-> task, time |-> time]
ExtractReplies ==
    {[kind |-> k, task |-> NullV, time |-> NullV] : k \in {"error", "not_json", "json_other"}}
    \cup {Object(NullV, NullV), Object(Str(<<>>), Str(<<"ts", 1>>))}
    \cup {Object(Str(d), NullV) : d \in Descriptions}
    \cup {Object(NullV, t) : t \in TimeValues}
    \cup {Object(Str(d), t) : d \in Descriptions, t \in TimeValues}

\* A text message, as the two oracles answer it: the name of a place (the
\* extraction query finds no task in it) or a message about a task (the
\* timezone query finds no place in it).
Texts ==
    {[tz_reply |-> r, ex_reply |-> [kind |-> "not_json", task |-> NullV, time |-> NullV]] :
        r \in TimezoneReplies}
    \cup {[tz_reply |-> [error |-> FALSE, content |-> <<"Unknown">>], ex_reply |-> e] :
        e \in ExtractReplies}

\* The extraction reply is no JSON object or lacks its 'task' or 'time' field.
LacksField(reply) ==
    reply.kind # "object" \/ reply.task = NullV \/ reply.time = NullV

\* extract_task_and_time: (task, time) of a JSON object, (None, None) on a
\* JSONDecodeError and on any other exception (result.get on a non-object).
extract_task_and_time(reply) ==
    IF reply.kind = "object"
    THEN [task |-> reply.task, time |-> reply.time]
    ELSE [task |-> NullV, time |-> NullV]

\* Python truth value of a JSON value.
Truthy(v) ==
    CASE v.type = "str" -> v.text # <<>>
      [] v.type = "num" -> v.num # 0
      [] OTHER -> FALSE

\* A plausible slip: no check of what the extraction returned.
UnrecognizedNever(r) == FALSE

\* if not task_description or not task_time_str
Unrecognized(r) == ~Truthy(r.task) \/ ~Truthy(r.time)

\* datetime.strptime(task_time_str, '%Y-%m-%d %H:%M:%S'): the wall clock, a
\* ValueError for text in another format, a TypeError for a non-string.
Strptime(v) ==
    IF v.type # "str" THEN [raises |-> "TypeError", naive |-> 0]
    ELSE IF Len(v.text) = 2 /\ v.text[1] = "ts"
         THEN [raises |-> "none", naive |-> v.text[2]]
         ELSE [raises |-> "ValueError", naive |-> 0]

\* A plausible slip: accepting a time equal to now.
NotFutureStrict(task_time, now) == Instant(task_time) < Instant(now)

\* if task_time <= now
NotFuture(task_time, now) == Instant(task_time) <= Instant(now)

\* ----------------------------------------------------------------- state
VARIABLES
    clock,        \* the current UTC instant
    user_data,    \* context.user_data: per user 'timezone' and 'delete_task_id'
    user_tasks,   \* user_id -> task_id -> task
    jobs,         \* the job queue: pending jobs, each with its multiplicity
    running,      \* send_reminder callbacks suspended in send_message
    conv_handler_setup_timezone,   \* per user state of the setup conversation
    conv_handler_change_timezone,  \* per user state of the change conversation
    next_id,      \* the next fresh task id (uuid4)
    sent,         \* per task id, the reminders delivered
    owner,        \* per task id issued so far, the user it was created for
    shown,        \* per user, the buttons the bot has shown so far
    last          \* the last step: the update or callback, its handler, the answer

vars == <<clock, user_data, user_tasks, jobs, running,
          conv_handler_setup_timezone, conv_handler_change_timezone,
          next_id, sent, owner, shown, last>>

\* A finite mapping without key k, and with one more copy of e / one less.
DelKey(f, k) == [x \in DOMAIN f \ {k} |-> f[x]]
AddCopy(b, e) == IF e \in DOMAIN b THEN [b EXCEPT ![e] = @ + 1] ELSE b @@ (e :> 1)
DropCopy(b, e) == IF b[e] > 1 THEN [b EXCEPT ![e] = @ - 1] ELSE DelKey(b, e)
RECURSIVE Copies(_)
Copies(b) ==
    IF DOMAIN b = {} THEN 0
    ELSE LET e == CHOOSE x \in DOMAIN b : TRUE IN b[e] + Copies(DelKey(b, e))
Empty == [x \in {} |-> 0]

\* What a step records: the update (event, user; about is the task id of the
\* pressed button or of the job; city is what the resolver makes of a text),
\* the handler that took it, the timezone receive_city found stored, the
\* instant handle_message parsed, whether the extraction reply it got lacked
\* a field, the bot's answer, the task ids in the order 'view_tasks' lists
\* them, and an exception that left the handler.
Ev(event, user, handler, reply) ==
    [event |-> event, user |-> user, handler |-> handler, reply |-> reply,
     about |-> NoTask, city |-> None, previous_timezone |-> None,
     task_time |-> {}, lacks_field |-> FALSE, listing |-> <<>>, error |-> "none"]

Init ==
    /\ clock = 0
    /\ user_data = [u \in Users |-> [timezone |-> None, delete_task_id |-> NoTask]]
    /\ user_tasks = [u \in Users |-> Empty]
    /\ jobs = Empty
    /\ running = Empty
    /\ conv_handler_setup_timezone = [u \in Users |-> END]
    /\ conv_handler_change_timezone = [u \in Users |-> END]
    /\ next_id = 1
    /\ sent = [t \in TaskIds |-> 0]
    /\ owner = Empty
    /\ shown = [u \in Users |-> [retry |-> FALSE, confirm |-> {}]]
    /\ last = Ev("init", "-", "-", "none")

\* ------------------------------------------------------------- job queue
\* A plausible slip: rescheduling without removing the jobs already queued.
KeepJobsByName(js, name) == js

\* for job in job_queue.get_jobs_by_name(name): job.schedule_removal()
RemoveJobsByName(js, name) == [j \in {k \in DOMAIN js : k.name # name} |-> js[j]]

\* job_queue.run_once(send_reminder, when=when, data={user_id, task_id},
\* name=task_id), called at instant at: the job is due at at + when.
RunOnce(js, user_id, task_id, when, at) ==
    AddCopy(js, [name |-> task_id, user_id |-> user_id, task_id |-> task_id,
                 run_at |-> at + when])

\* The pending jobs registered under a name.
JobsByName(js, name) == Copies([j \in {k \in DOMAIN js : k.name = name} |-> js[j]])

\* --------------------------------------------------------------- listing
\* tasks.values(): the ids of a store in the order of the dict, the order of
\* insertion (ids are issued in increasing order).
RECURSIVE Values(_)
Values(ids) ==
    IF ids = {} THEN <<>>
    ELSE LET id == CHOOSE x \in ids : \A y \in ids : x <= y
         IN  <<id>> \o Values(ids \ {id})

\* A plausible slip: a comparison that lets an equal time overtake.
EarlierOrEqual(a, b) == Instant(a) <= Instant(b)

\* x['time'] < y['time'] on aware datetimes: the order of their instants.
Earlier(a, b) == Instant(a) < Instant(b)

\* sorted(..., key=lambda x: x['time']) is stable: an element goes behind
\* every element that is not later than it.
RECURSIVE InsertSorted(_, _, _)
InsertSorted(s, id, tasks) ==
    IF s = <<>> THEN <<id>>
    ELSE IF Earlier(tasks[id].time, tasks[Head(s)].time)
         THEN <<id>> \o s
         ELSE <<Head(s)>> \o InsertSorted(Tail(s), id, tasks)

RECURSIVE SortByTime(_, _, _)
SortByTime(done, todo, tasks) ==
    IF todo = <<>> THEN done
    ELSE SortByTime(InsertSorted(done, Head(todo), tasks), Tail(todo), tasks)

sorted_tasks(tasks) == SortByTime(<<>>, Values(DOMAIN tasks), tasks)

\* -------------------------------------------------------------- handlers
\* The loop of receive_city over the user's tasks (in the order of the
\* dict, the order of creation): the task's jobs are removed and one job is
\* queued with the delay the rewritten time has from now.
\* A plausible slip: the old jobs are cancelled in the loop and the new ones
\* are registered later, after the handler has given up control.
CancelJobsOnly(js, tasks, ids, user_id, now) ==
    [j \in {k \in DOMAIN js : k.name \notin ids} |-> js[j]]

\* A plausible slip: emptying the job queue before rescheduling.
ReconcileJobsClearing(js, tasks, ids, user_id, now) ==
    [j \in {[name |-> id, user_id |-> user_id, task_id |-> id,
              run_at |-> Instant(tasks[id].time)] : id \in ids} |-> 1]

RECURSIVE ReconcileJobs(_, _, _, _, _)
ReconcileJobs(js, tasks, ids, user_id, now) ==
    IF ids = {} THEN js
    ELSE LET id == CHOOSE x \in ids : \A y \in ids : x <= y
             current_jobs_removed == RemoveJobsByName(js, id)
         IN  ReconcileJobs(
                 RunOnce(current_jobs_removed, user_id, id,
                         Seconds(tasks[id].time, now), Instant(now)),
                 tasks, ids \ {id}, user_id, now)

\* A plausible slip: reconciling whenever a timezone was stored before.
TimezoneStoredBefore(previous_timezone, timezone_str) == previous_timezone # None

\* if previous_timezone and previous_timezone != timezone_str
TimezoneChanged(previous_timezone, timezone_str) ==
    previous_timezone # None /\ previous_timezone # timezone_str

\* receive_city, as the handler of conversation conv ("setup" or "change").
\* text.tz_reply is the oracle's reply for the city, d the time the call takes.
receive_city(u, conv, text, d) ==
    LET timezone_str == get_timezone_via_gpt(text.tz_reply)
        previous_timezone == user_data[u].timezone
        SetConv(state) ==
            IF conv = "setup"
            THEN /\ conv_handler_setup_timezone' =
                        [conv_handler_setup_timezone EXCEPT ![u] = state]
                 /\ UNCHANGED conv_handler_change_timezone
            ELSE /\ conv_handler_change_timezone' =
                        [conv_handler_change_timezone EXCEPT ![u] = state]
                 /\ UNCHANGED conv_handler_setup_timezone
    IN
    /\ clock + d <= MaxClock
    /\ clock' = clock + d
    /\ IF timezone_str = None
       THEN /\ last' = Ev("text", u, "receive_city", "tz_failed")
            /\ shown' = [shown EXCEPT ![u].retry = TRUE]
            /\ SetConv(ASK_CITY)
            /\ UNCHANGED <<user_data, user_tasks, jobs>>
       ELSE /\ user_data' = [user_data EXCEPT ![u].timezone = timezone_str]
            /\ IF TimezoneChanged(previous_timezone, timezone_str)
               THEN LET tasks == [id \in DOMAIN user_tasks[u] |->
                                     [user_tasks[u][id] EXCEPT
                                         !.time = Astimezone(@, timezone_str)]]
                        now == FromUtc(clock + d, timezone_str)
                    IN  /\ user_tasks' = [user_tasks EXCEPT ![u] = tasks]
                        /\ jobs' = ReconcileJobs(jobs, tasks, DOMAIN tasks, u, now)
               ELSE UNCHANGED <<user_tasks, jobs>>
            /\ last' = [Ev("text", u, "receive_city", "tz_set") EXCEPT
                           !.city = timezone_str,
                           !.previous_timezone = previous_timezone]
            /\ SetConv(POST_TIMEZONE_SET)
            /\ UNCHANGED shown
    /\ UNCHANGED <<running, next_id, sent, owner>>

\* handle_message.  text.ex_reply is the oracle's reply to the extraction
\* query, d the time the call takes; `now` is read before the call, the job
\* is queued after it.
handle_message(u, text, d) ==
    LET timezone_str == user_data[u].timezone
        now == FromUtc(clock, timezone_str)
        r == extract_task_and_time(text.ex_reply)
        parsed == Strptime(r.time)
        task_time == Localize(parsed.naive, timezone_str)
        Ans(reply) == [Ev("text", u, "handle_message", reply) EXCEPT
                          !.city = get_timezone_via_gpt(text.tz_reply),
                          !.lacks_field = timezone_str # None
                                            /\ LacksField(text.ex_reply)]
    IN
    /\ UNCHANGED <<user_data, running, sent, shown,
                   conv_handler_setup_timezone, conv_handler_change_timezone>>
    /\ IF timezone_str = None
       THEN /\ d = 0
            /\ last' = Ans("no_tz")
            /\ UNCHANGED <<clock, user_tasks, jobs, next_id, owner>>
       ELSE /\ clock + d <= MaxClock
            /\ clock' = clock + d
            /\ IF Unrecognized(r)
               THEN /\ last' = Ans("unrecognized")
                    /\ UNCHANGED <<user_tasks, jobs, next_id, owner>>
               ELSE IF parsed.raises = "TypeError"
               THEN /\ last' = [Ans("none") EXCEPT !.error = "TypeError"]
                    /\ UNCHANGED <<user_tasks, jobs, next_id, owner>>
               ELSE IF parsed.raises = "ValueError"
               THEN /\ last' = Ans("bad_format")
                    /\ UNCHANGED <<user_tasks, jobs, next_id, owner>>
               ELSE IF NotFuture(task_time, now)
               THEN /\ last' = [Ans("not_future") EXCEPT
                                   !.task_time = {Instant(task_time)}]
                    /\ UNCHANGED <<user_tasks, jobs, next_id, owner>>
               ELSE LET task_id == next_id
                        task == [id |-> task_id, description |-> r.task.text,
                                 time |-> task_time]
                    IN  /\ next_id <= MaxTasks
                        /\ next_id' = next_id + 1
                        /\ owner' = owner @@ (task_id :> u)
                        /\ user_tasks' = [user_tasks EXCEPT ![u] = @ @@ (task_id :> task)]
                        /\ jobs' = RunOnce(jobs, u, task_id,
                                           Seconds(task_time, now), clock + d)
                        /\ last' = [Ans("task_added") EXCEPT
                                       !.task_time = {Instant(task_time)},
                                       !.about = task_id]

\* A handler that only answers: the answer, and the conversation states.
Answer(u, ev, setup_state, change_state) ==
    /\ last' = ev
    /\ conv_handler_setup_timezone' = [conv_handler_setup_timezone EXCEPT ![u] = setup_state]
    /\ conv_handler_change_timezone' = [conv_handler_change_timezone EXCEPT ![u] = change_state]
    /\ UNCHANGED <<clock, user_data, user_tasks, jobs, running, next_id, sent,
                   owner, shown>>

\* start: entry point of the setup conversation.
start(u) ==
    IF user_data[u].timezone # None
    THEN Answer(u, Ev("/start", u, "start", "welcome_back"),
                END, conv_handler_change_timezone[u])
    ELSE Answer(u, Ev("/start", u, "start", "ask_city"),
                ASK_CITY, conv_handler_change_timezone[u])

\* cancel: fallback of both conversations (conv names the one that took the
\* update and ends) and a handler of its own ("none").
cancel(u, conv) ==
    Answer(u, Ev("/cancel", u, "cancel", "cancelled"),
           IF conv = "setup" THEN END ELSE conv_handler_setup_timezone[u],
           IF conv = "change" THEN END ELSE conv_handler_change_timezone[u])

\* retry_city_handler returns ASK_CITY to the conversation that took the update.
retry_city_handler(u, conv) ==
    Answer(u, Ev("retry_city", u, "retry_city_handler", "retry_prompt"),
           IF conv = "setup" THEN ASK_CITY ELSE conv_handler_setup_timezone[u],
           IF conv = "change" THEN ASK_CITY ELSE conv_handler_change_timezone[u])

\* send_instructions returns nothing: the setup conversation keeps its state.
send_instructions(u) ==
    Answer(u, Ev("instructions", u, "send_instructions", "instructions"),
           conv_handler_setup_timezone[u], conv_handler_change_timezone[u])

\* start_now_handler ends the setup conversation.
start_now_handler(u) ==
    Answer(u, Ev("start_now", u, "start_now_handler", "ready"),
           END, conv_handler_change_timezone[u])

\* start_change_timezone: entry point of the change conversation.
start_change_timezone(u) ==
    Answer(u, Ev("change_timezone", u, "start_change_timezone", "ask_city"),
           conv_handler_setup_timezone[u], CHANGE_TIMEZONE)

\* A plausible slip: deleting the task the pressed prompt named.
PromptedTaskId(slots, prompted) == prompted

\* task_id = context.user_data.get('delete_task_id')
PendingDeleteTaskId(slots, prompted) == slots.delete_task_id

\* button_handler is registered outside the conversations: what it returns
\* changes no conversation state.  data is the callback data; id is the task
\* id of 'delete_<id>', and for confirm_delete / cancel_delete the task the
\* pressed button's prompt names (the code never reads it).
button_handler(u, data, id) ==
    LET tasks == user_tasks[u]
        Only(reply) ==
            /\ last' = [Ev(data, u, "button_handler", reply) EXCEPT !.about = id]
            /\ UNCHANGED <<user_data, user_tasks, jobs, shown>>
        Ans(reply) ==
            last' = [Ev(data, u, "button_handler", reply) EXCEPT !.about = id]
    IN
    /\ UNCHANGED <<clock, running, next_id, sent, owner,
                   conv_handler_setup_timezone, conv_handler_change_timezone>>
    /\ CASE data = "view_tasks" ->
                IF DOMAIN tasks = {}
                THEN Only("no_tasks")
                ELSE /\ last' = [Ev(data, u, "button_handler", "task_list") EXCEPT
                                    !.listing = sorted_tasks(tasks)]
                     /\ UNCHANGED <<user_data, user_tasks, jobs, shown>>
         [] data = "delete_task" ->
                Only(IF DOMAIN tasks = {} THEN "no_tasks_delete" ELSE "choose_delete")
         [] data = "more" -> Only("more")
         [] data = "instructions" -> Only("instructions")
         [] data = "start_now" -> Only("ready")
         [] data = "change_timezone" -> Only("ask_city")
         [] data = "delete_" ->
                IF id \in DOMAIN tasks
                THEN /\ user_data' = [user_data EXCEPT ![u].delete_task_id = id]
                     /\ shown' = [shown EXCEPT ![u].confirm = @ \cup {id}]
                     /\ Ans("confirm_prompt")
                     /\ UNCHANGED <<user_tasks, jobs>>
                ELSE Only("not_found")
         [] data = "confirm_delete" ->
                LET task_id == PendingDeleteTaskId(user_data[u], id) IN
                IF task_id = NoTask
                THEN Only("error")
                ELSE /\ IF task_id \in DOMAIN tasks
                        THEN /\ user_tasks' = [user_tasks EXCEPT ![u] = DelKey(@, task_id)]
                             /\ jobs' = RemoveJobsByName(jobs, task_id)
                             /\ Ans("deleted")
                        ELSE /\ Ans("not_found")
                             /\ UNCHANGED <<user_tasks, jobs>>
                     /\ user_data' = [user_data EXCEPT ![u].delete_task_id = NoTask]
                     /\ UNCHANGED shown
         [] data = "cancel_delete" ->
                /\ Ans("delete_cancelled")
                /\ user_data' = [user_data EXCEPT ![u].delete_task_id = NoTask]
                /\ UNCHANGED <<user_tasks, jobs, shown>>
         [] OTHER -> Only("none")

\* An update no handler takes.
Unhandled(u, event) ==
    /\ last' = Ev(event, u, "none", "none")
    /\ UNCHANGED <<clock, user_data, user_tasks, jobs, running, next_id, sent, owner,
                   shown, conv_handler_setup_timezone, conv_handler_change_timezone>>

\* -------------------------------------------------------------- dispatch
\* The handlers are registered in one group, so an update goes to the first
\* that takes it: the setup conversation, the change conversation,
\* button_handler (every callback), handle_message (text), cancel.  A
\* conversation takes an update through an entry point when it has no state,
\* else through the handlers of its state, else through its fallback; a
\* state that is no key of `states` has no handlers.

\* The text message text, which is no command; its oracle call takes d.
TextMessage(u, text, d) ==
    IF conv_handler_setup_timezone[u] = ASK_CITY
    THEN receive_city(u, "setup", text, d)
    ELSE IF conv_handler_change_timezone[u] = CHANGE_TIMEZONE
    THEN receive_city(u, "change", text, d)
    ELSE handle_message(u, text, d)

\* A text message that is no command.
TextUpdate(u) ==
    \E text \in Texts, d \in 0..MaxOracleDelay : TextMessage(u, text, d)

\* /start
StartCommand(u) ==
    IF conv_handler_setup_timezone[u] = END
    THEN start(u)
    ELSE Unhandled(u, "/start")

\* /cancel
CancelCommand(u) ==
    IF conv_handler_setup_timezone[u] # END THEN cancel(u, "setup")
    ELSE IF conv_handler_change_timezone[u] # END THEN cancel(u, "change")
    ELSE cancel(u, "none")

\* The buttons a user can press: those of the main menu and of the 'more'
\* menu (the answer to a user's first message carries the main menu), that
\* of the menu sent once a timezone is set, the 'delete_<id>' buttons of the
\* tasks created for the user ('delete_task' lists them and changes
\* nothing, so a task that exists can always have been listed), and the
\* retry and confirmation buttons shown so far.
Buttons(u) ==
    {<<data, NoTask>> : data \in {"view_tasks", "delete_task", "more",
                                  "instructions", "change_timezone"}}
    \cup (IF user_data[u].timezone # None THEN {<<"start_now", NoTask>>} ELSE {})
    \cup (IF shown[u].retry THEN {<<"retry_city", NoTask>>} ELSE {})
    \cup {<<"delete_", id>> : id \in {t \in DOMAIN owner : owner[t] = u}}
    \cup {<<data, id>> : data \in {"confirm_delete", "cancel_delete"},
                         id \in shown[u].confirm}

\* The press of button b = <<callback data, task id>>.
ButtonPress(u, b) ==
    LET data == b[1]
        setup_state == conv_handler_setup_timezone[u]
        change_state == conv_handler_change_timezone[u]
    IN
    IF setup_state = ASK_CITY /\ data = "retry_city"
    THEN retry_city_handler(u, "setup")
    ELSE IF setup_state = POST_TIMEZONE_SET /\ data = "instructions"
    THEN send_instructions(u)
    ELSE IF setup_state = POST_TIMEZONE_SET /\ data = "start_now"
    THEN start_now_handler(u)
    ELSE IF change_state = END /\ data = "change_timezone"
    THEN start_change_timezone(u)
    ELSE IF change_state = CHANGE_TIMEZONE /\ data = "retry_city"
    THEN retry_city_handler(u, "change")
    ELSE button_handler(u, data, b[2])

\* A button press.
CallbackUpdate(u) == \E b \in Buttons(u) : ButtonPress(u, b)

\* ------------------------------------------------------------------ jobs
\* A plausible slip: sending without looking the task up.
ReminderStartsAlways(tasks, task_id) == TRUE

\* task = user_tasks.get(user_id, {}).get(task_id); if task:
ReminderStarts(tasks, task_id) == task_id \in DOMAIN tasks

\* A due job leaves the queue and send_reminder runs up to its await: with
\* the task in the store it starts the delivery, without it it returns.
FireJob(j) ==
    /\ j \in DOMAIN jobs
    /\ j.run_at <= clock
    /\ jobs' = DropCopy(jobs, j)
    /\ IF ReminderStarts(user_tasks[j.user_id], j.task_id)
       THEN /\ Copies(running) < MaxRunning
            /\ running' = AddCopy(running, [user_id |-> j.user_id, task_id |-> j.task_id])
            /\ last' = [Ev("job", j.user_id, "send_reminder", "none") EXCEPT
                           !.about = j.task_id]
       ELSE /\ UNCHANGED running
            /\ last' = [Ev("job", j.user_id, "send_reminder", "none") EXCEPT
                           !.about = j.task_id]
    /\ UNCHANGED <<clock, user_data, user_tasks, conv_handler_setup_timezone,
                   conv_handler_change_timezone, next_id, sent, owner, shown>>

\* A plausible slip: the task is deleted inside the try, after a successful
\* send only.
FinishReminderDeliveredOnly(r, delivered) ==
    /\ r \in DOMAIN running
    /\ running' = DropCopy(running, r)
    /\ sent' = IF delivered THEN [sent EXCEPT ![r.task_id] = @ + 1] ELSE sent
    /\ user_tasks' = IF delivered /\ r.task_id \in DOMAIN user_tasks[r.user_id]
                     THEN [user_tasks EXCEPT ![r.user_id] = DelKey(@, r.task_id)]
                     ELSE user_tasks
    /\ last' = [Ev("job_done", r.user_id, "send_reminder",
                   IF delivered THEN "reminder" ELSE "none") EXCEPT
                   !.about = r.task_id]
    /\ UNCHANGED <<clock, user_data, jobs, conv_handler_setup_timezone,
                   conv_handler_change_timezone, next_id, owner, shown>>

\* send_message returns (delivered) or raises (caught and logged); then
\* del user_tasks[user_id][task_id], a KeyError when the task is gone.
FinishReminder(r, delivered) ==
    /\ r \in DOMAIN running
    /\ running' = DropCopy(running, r)
    /\ sent' = IF delivered THEN [sent EXCEPT ![r.task_id] = @ + 1] ELSE sent
    /\ IF r.task_id \in DOMAIN user_tasks[r.user_id]
       THEN /\ user_tasks' = [user_tasks EXCEPT ![r.user_id] = DelKey(@, r.task_id)]
            /\ last' = [Ev("job_done", r.user_id, "send_reminder",
                           IF delivered THEN "reminder" ELSE "none") EXCEPT
                           !.about = r.task_id]
       ELSE /\ UNCHANGED user_tasks
            /\ last' = [Ev("job_done", r.user_id, "send_reminder",
                           IF delivered THEN "reminder" ELSE "none") EXCEPT
                           !.about = r.task_id, !.error = "KeyError"]
    /\ UNCHANGED <<clock, user_data, jobs, conv_handler_setup_timezone,
                   conv_handler_change_timezone, next_id, owner, shown>>

\* Time passes.
Tick ==
    /\ clock < MaxClock
    /\ clock' = clock + 1
    /\ last' = Ev("tick", "-", "-", "none")
    /\ UNCHANGED <<user_data, user_tasks, jobs, running, conv_handler_setup_timezone,
                   conv_handler_change_timezone, next_id, sent, owner, shown>>

\* The users who send updates.
Senders == {"u1"}

Next ==
    \/ \E u \in Senders : TextUpdate(u)
    \/ \E u \in Senders : StartCommand(u)
    \/ \E u \in Senders : CancelCommand(u)
    \/ \E u \in Senders : CallbackUpdate(u)
    \/ \E j \in DOMAIN jobs : FireJob(j)
    \/ \E r \in DOMAIN running, delivered \in BOOLEAN : FinishReminder(r, delivered)
    \/ Tick

Spec == Init /\ [][Next]_vars

\* Time passes, the scheduler runs a job that is due, and a delivery that was
\* started returns or fails.
Fairness ==
    /\ WF_vars(Tick)
    /\ WF_vars(\E j \in DOMAIN jobs : FireJob(j))
    /\ WF_vars(\E r \in DOMAIN running, delivered \in BOOLEAN : FinishReminder(r, delivered))

LiveSpec == Spec /\ Fairness

\* ---------------------------------------------------------------- stores
\* The bot in the middle of a run, with more tasks than Spec lets it reach:
\* MaxStored tasks have been created, each for one of the two users and each
\* with its job pending; u1 set UTC and u2 America/New_York.  From there u1
\* lists the tasks and changes the timezone (with /cancel in between), time
\* passing during the oracle calls; no job gets to run meanwhile.
StoredIds == 1..MaxStored

InitStores ==
    /\ clock = 0
    /\ user_data = [u \in Users |->
                       [timezone |-> IF u = "u1" THEN "UTC" ELSE "America/New_York",
                        delete_task_id |-> NoTask]]
    /\ owner \in [StoredIds -> Users]
    /\ \E naive \in [StoredIds -> NaiveTimes] :
          /\ user_tasks = [u \in Users |->
                [id \in {t \in StoredIds : owner[t] = u} |->
                    [id |-> id, description |-> <<"call Alice">>,
                     time |-> Localize(naive[id], user_data[u].timezone)]]]
          /\ jobs = [j \in {[name |-> id, user_id |-> owner[id], task_id |-> id,
                              run_at |-> Instant(user_tasks[owner[id]][id].time)] :
                             id \in StoredIds} |-> 1]
    /\ running = Empty
    /\ conv_handler_setup_timezone = [u \in Users |-> END]
    /\ conv_handler_change_timezone = [u \in Users |-> END]
    /\ next_id = MaxStored + 1
    /\ sent = [t \in TaskIds |-> 0]
    /\ shown = [u \in Users |-> [retry |-> FALSE, confirm |-> {}]]
    /\ last = Ev("init", "-", "-", "none")

NextStores ==
    \/ \E u \in Senders : ButtonPress(u, <<"view_tasks", NoTask>>)
    \/ \E u \in Senders : ButtonPress(u, <<"change_timezone", NoTask>>)
    \/ \E u \in Senders, text \in Texts, d \in 0..MaxOracleDelay : TextMessage(u, text, d)
    \/ \E u \in Senders : CancelCommand(u)

SpecStores == InitStores /\ [][NextStores]_vars

\* From the same stores u1 selects tasks for deletion, confirms and cancels.
NextDeletes ==
    \/ \E u \in Senders : \E b \in Buttons(u) : b[1] = "delete_" /\ ButtonPress(u, b)
    \/ \E u \in Senders : \E b \in Buttons(u) : b[1] = "confirm_delete" /\ ButtonPress(u, b)
    \/ \E u \in Senders : \E b \in Buttons(u) : b[1] = "cancel_delete" /\ ButtonPress(u, b)

SpecDeletes == InitStores /\ [][NextDeletes]_vars

\* ---------------------------------------------------------------- claims
\* A step whose update is event, sent by user u (last' describes the step).
Handles(event, u) == last'.event = event /\ last'.user = u

\* Reconciliation has just run: receive_city replaced a stored timezone by
\* another one.
Reconciled ==
    /\ last.handler = "receive_city"
    /\ last.reply = "tz_set"
    /\ last.previous_timezone \notin {None, last.city}

\* C1: at every point at most one pending job is registered under a task id.
AtMostOneJob == \A t \in TaskIds : JobsByName(jobs, t) <= 1

\* C1 witness: a task has its one job right after a reconciliation.
AtMostOneJobWitness ==
    /\ Reconciled
    /\ \E t \in DOMAIN user_tasks[last.user] : JobsByName(jobs, t) = 1

\* C2: a task's reminder is delivered at most once, and no job is registered
\* for a task whose reminder is being delivered.
NotifiedAtMostOnce ==
    [][/\ \A t \in TaskIds : sent'[t] <= 1
       /\ \A j \in DOMAIN jobs' :
            (j \notin DOMAIN jobs \/ jobs'[j] > jobs[j])
                => [user_id |-> j.user_id, task_id |-> j.task_id] \notin DOMAIN running
      ]_vars

\* C3: no step changes the absolute instant of a stored task; in particular
\* the rewrite of a task's time on a timezone change keeps it.
RoundTripUnderTimezoneChange ==
    [][\A u \in Users : \A t \in DOMAIN user_tasks[u] \cap DOMAIN user_tasks'[u] :
          Instant(user_tasks'[u][t].time) = Instant(user_tasks[u][t].time)]_vars

\* C3 witness: a task rewritten into the new timezone by a reconciliation.
RoundTripWitness ==
    /\ Reconciled
    /\ \E t \in DOMAIN user_tasks[last.user] :
          user_tasks[last.user][t].time.zone = last.city

\* C4: a task handle_message inserts has a time strictly after the `now` of
\* the check; a time that is not after it is rejected as not-future and
\* neither the store nor the jobs change.
StoredTimeInFuture ==
    [][/\ \A u \in Users : \A t \in DOMAIN user_tasks'[u] \ DOMAIN user_tasks[u] :
            /\ last'.handler = "handle_message"
            /\ Instant(user_tasks'[u][t].time) > clock
       /\ (last'.handler = "handle_message"
             /\ \E x \in last'.task_time : x <= clock)
            => /\ last'.reply = "not_future"
               /\ user_tasks' = user_tasks
               /\ jobs' = jobs
      ]_vars

\* C4 witness: handle_message has just stored a task.
StoredTimeWitness ==
    /\ last.handler = "handle_message"
    /\ last.reply = "task_added"
    /\ last.about \in DOMAIN user_tasks[last.user]

\* C5: a pending job's task is in the store of the user its payload names.
JobImpliesTask ==
    \A j \in DOMAIN jobs : j.task_id \in DOMAIN user_tasks[j.user_id]

\* C6: a delete or confirm press for a task that is no longer stored changes
\* neither the store nor the jobs and is answered 'not found', not 'error'.
DeletionIdempotent ==
    [][\A u \in Users :
          ((Handles("delete_", u) \/ Handles("confirm_delete", u))
              /\ last'.about \notin DOMAIN user_tasks[u])
            => /\ user_tasks' = user_tasks
               /\ jobs' = jobs
               /\ last'.reply = "not_found"
      ]_vars

\* C7: a job that fires for a task no longer stored delivers nothing, raises
\* nothing and changes neither the store nor the other jobs.
StaleFireDiscarded ==
    [][\A u \in Users :
          (Handles("job", u) /\ last'.about \notin DOMAIN user_tasks[u])
            => /\ running' = running
               /\ sent' = sent
               /\ user_tasks' = user_tasks
               /\ last'.error = "none"
               /\ last'.reply = "none"
               /\ \E j \in DOMAIN jobs : j.task_id = last'.about /\ jobs' = DropCopy(jobs, j)
      ]_vars

\* C7 witness: a job has just fired for a task that is not stored.
StaleFireWitness ==
    /\ last.event = "job"
    /\ last.about \notin DOMAIN user_tasks[last.user]

\* C8: with a timezone stored, a city sent right after pressing
\* 'change_timezone' is handled by receive_city and becomes the timezone.
TimezoneOverwritable ==
    [][\A u \in Users :
          (/\ last.event = "change_timezone" /\ last.user = u
           /\ last.reply = "ask_city"
           /\ user_data[u].timezone # None
           /\ Handles("text", u)
           /\ last'.city # None)
            => /\ last'.handler = "receive_city"
               /\ user_data'[u].timezone = last'.city
      ]_vars

\* C9: after a failed resolution the next text of the user is handled by
\* receive_city and pressing 'retry_city' asks for the city again.
RepromptAfterFailure ==
    [][\A u \in Users :
          (last.handler = "receive_city" /\ last.reply = "tz_failed" /\ last.user = u)
            => /\ Handles("text", u) => last'.handler = "receive_city"
               /\ Handles("retry_city", u) => last'.reply = "retry_prompt"
      ]_vars

\* C10: handle_message ends with a created task or with a rejection and an
\* unchanged store and job set, never with an exception.
NoRawException ==
    [][last'.handler = "handle_message"
         => /\ last'.error = "none"
            /\ \/ last'.reply = "task_added"
               \/ /\ last'.reply \in {"no_tz", "unrecognized", "bad_format", "not_future"}
                  /\ user_tasks' = user_tasks
                  /\ jobs' = jobs
      ]_vars

\* C11: a message whose extraction reply is unparseable or lacks 'task' or
\* 'time' is rejected: no task is stored and no job is scheduled for it.
ExtractionFailureCreatesNothing ==
    [][(last'.handler = "handle_message" /\ last'.lacks_field)
          => /\ user_tasks' = user_tasks
             /\ jobs' = jobs
             /\ last'.reply = "unrecognized"
             /\ last'.error = "none"
      ]_vars

\* C11 witness: handle_message has just rejected a message whose extraction
\* reply lacked a field.
ExtractionFailureWitness ==
    /\ last.handler = "handle_message"
    /\ last.lacks_field
    /\ last.reply = "unrecognized"

\* C12: the resolver returns a canonical timezone or None for every oracle
\* reply, and every stored timezone is absent or canonical.
ResolverCanonical ==
    /\ \A reply \in TimezoneReplies :
          get_timezone_via_gpt(reply) \in AllTimezones \cup {None}
    /\ \A u \in Users : user_data[u].timezone \in AllTimezones \cup {None}

\* C12 witness: receive_city has just stored the timezone the resolver returned.
ResolverCanonicalWitness ==
    /\ last.handler = "receive_city"
    /\ last.reply = "tz_set"
    /\ last.city \in AllTimezones
    /\ user_data[last.user].timezone = last.city

\* C13: 'view_tasks' lists exactly the tasks of the user's store, ascending by
\* time, tasks of equal time in the order of their insertion.
ListingSorted ==
    (last.event = "view_tasks" /\ last.handler = "button_handler")
      => LET tasks == user_tasks[last.user]
             listing == last.listing
         IN  /\ (last.reply = "no_tasks") = (DOMAIN tasks = {})
             /\ Len(listing) = Cardinality(DOMAIN tasks)
             /\ {listing[i] : i \in 1..Len(listing)} = DOMAIN tasks
             /\ \A i, j \in 1..Len(listing) :
                   i < j => \/ Instant(tasks[listing[i]].time) < Instant(tasks[listing[j]].time)
                            \/ /\ Instant(tasks[listing[i]].time) = Instant(tasks[listing[j]].time)
                               /\ listing[i] < listing[j]

\* C13 witness: a listing, after a change away from the first timezone, of
\* three tasks with two of equal time and one later task inserted first.
ListingSortedWitness ==
    /\ last.event = "view_tasks"
    /\ user_data[last.user].timezone # "UTC"
    /\ Len(last.listing) = 3
    /\ \E i, j \in 1..3 :
          /\ i < j
          /\ Instant(user_tasks[last.user][last.listing[i]].time)
                = Instant(user_tasks[last.user][last.listing[j]].time)
    /\ \E i, j \in 1..3 : i < j /\ last.listing[i] > last.listing[j]

\* C14: the job of a task handle_message has just created is due at the
\* task's stored instant.
ReminderDueAtTaskInstant ==
    (last.handler = "handle_message" /\ last.reply = "task_added")
      => \A j \in DOMAIN jobs :
            j.task_id = last.about
              => j.run_at = Instant(user_tasks[last.user][last.about].time)

\* C15: after a change to a different timezone every task of the user has
\* exactly one pending job, due at the instant the task had and has.
RescheduledAtInstant ==
    [][Reconciled'
         => \A t \in DOMAIN user_tasks'[last'.user] :
               /\ JobsByName(jobs', t) = 1
               /\ \A j \in DOMAIN jobs' :
                     j.name = t
                       => /\ j.user_id = last'.user
                          /\ j.task_id = t
                          /\ j.run_at = Instant(user_tasks[last'.user][t].time)
                          /\ j.run_at = Instant(user_tasks'[last'.user][t].time)
      ]_vars

\* C15 witness: a reconciliation of two or more tasks after which a job is
\* already due.
RescheduledWitness ==
    /\ Reconciled
    /\ Cardinality(DOMAIN user_tasks[last.user]) >= 2
    /\ \E j \in DOMAIN jobs : j.user_id = last.user /\ j.run_at <= clock

\* C16: every stored task has its time expressed in the timezone stored for
\* its user.
TimeInCurrentTimezone ==
    \A u \in Users : \A t \in DOMAIN user_tasks[u] :
        user_tasks[u][t].time.zone = user_data[u].timezone

\* C16 witness: a task rewritten by a reconciliation into a timezone with an
\* offset.
TimeInCurrentTimezoneWitness ==
    /\ Reconciled
    /\ \E t \in DOMAIN user_tasks[last.user] :
          /\ user_tasks[last.user][t].time.zone = user_data[last.user].timezone
          /\ user_tasks[last.user][t].time.off # 0

\* C17: no state shows a stored task between the cancellation of its job and
\* the registration of the new one: a stored task always has a pending job
\* or is being delivered.
NeverMidReconciliation ==
    \A u \in Users : \A t \in DOMAIN user_tasks[u] :
        \/ JobsByName(jobs, t) >= 1
        \/ [user_id |-> u, task_id |-> t] \in DOMAIN running

\* C17 witness: a reconciliation has just run while the delivery of one of
\* the user's reminders was in flight.
NeverMidReconciliationWitness ==
    /\ Reconciled
    /\ \E t \in DOMAIN user_tasks[last.user] :
          /\ [user_id |-> last.user, task_id |-> t] \in DOMAIN running
          /\ JobsByName(jobs, t) = 1

\* The jobs pending for task t are due within the time the model covers.
DueWithinHorizon(t) == \A j \in DOMAIN jobs : j.task_id = t => j.run_at <= MaxClock

\* C18: a stored task (whose job is due within the time the model covers)
\* is eventually removed from the store.
TaskEventuallyRemoved ==
    \A u \in Users : \A t \in TaskIds :
        (t \in DOMAIN user_tasks[u] /\ DueWithinHorizon(t))
            ~> (t \notin DOMAIN user_tasks[u])

\* C18 witness: a delivery that failed has just removed a task of a user who
\* has been through the change of timezone.
TaskEventuallyRemovedWitness ==
    /\ last.event = "job_done"
    /\ last.reply = "none"
    /\ last.error = "none"
    /\ last.about \in DOMAIN owner
    /\ last.about \notin DOMAIN user_tasks[last.user]
    /\ conv_handler_change_timezone[last.user] = POST_TIMEZONE_SET

\* C19: receive_city with no timezone stored before, or with the one it
\* resolves, rewrites no task and touches no job; it only stores the timezone.
NoReconciliationWithoutChange ==
    [][(/\ last'.handler = "receive_city"
        /\ last'.reply = "tz_set"
        /\ last'.previous_timezone \in {None, last'.city})
          => /\ user_tasks' = user_tasks
             /\ jobs' = jobs
             /\ user_data' = [user_data EXCEPT ![last'.user].timezone = last'.city]
      ]_vars

\* C19 witness: receive_city has just resolved the timezone already stored,
\* for a user with a task whose job is pending.
NoReconciliationWitness ==
    /\ last.handler = "receive_city"
    /\ last.reply = "tz_set"
    /\ last.previous_timezone = last.city
    /\ \E t \in DOMAIN user_tasks[last.user] : JobsByName(jobs, t) = 1

\* C20: a reconciliation keeps the ids and descriptions of the user's tasks
\* and everything of the other users: their tasks, timezone and jobs.
ReconciliationFrame ==
    [][Reconciled'
         => LET u == last'.user IN
            /\ DOMAIN user_tasks'[u] = DOMAIN user_tasks[u]
            /\ \A t \in DOMAIN user_tasks[u] :
                  /\ user_tasks'[u][t].id = user_tasks[u][t].id
                  /\ user_tasks'[u][t].description = user_tasks[u][t].description
            /\ user_data'[u].delete_task_id = user_data[u].delete_task_id
            /\ \A v \in Users \ {u} :
                  /\ user_tasks'[v] = user_tasks[v]
                  /\ user_data'[v] = user_data[v]
            /\ \A j \in DOMAIN jobs \cup DOMAIN jobs' :
                  j.user_id # u
                    => /\ j \in DOMAIN jobs \cap DOMAIN jobs'
                       /\ jobs'[j] = jobs[j]
      ]_vars

\* C20 witness: a reconciliation of a user's tasks while another user has a
\* timezone, a task and its pending job.
ReconciliationFrameWitness ==
    /\ Reconciled
    /\ DOMAIN user_tasks[last.user] # {}
    /\ \E v \in Users \ {last.user} :
          /\ user_data[v].timezone # None
          /\ \E t \in DOMAIN user_tasks[v] :
                \E j \in DOMAIN jobs : j.user_id = v /\ j.task_id = t

\* C21: when send_reminder deletes the task after the delivery, the task is
\* still in the store: the deletion raises no KeyError.
ReminderDeletesStoredTask ==
    [][last'.event = "job_done"
         => /\ last'.about \in DOMAIN user_tasks[last'.user]
            /\ last'.error = "none"
      ]_vars

\* C22: 'confirm_delete' removes at most the task held in the user's
\* pending-delete slot and the jobs under its id, clears the slot and keeps
\* everything else; 'cancel_delete' clears the slot and keeps tasks and jobs.
ConfirmedDeletionFrame ==
    [][\A u \in Users :
          LET slot == user_data[u].delete_task_id
              found == slot \in DOMAIN user_tasks[u]
          IN
          /\ Handles("confirm_delete", u)
               => /\ DOMAIN user_tasks'[u] = DOMAIN user_tasks[u] \ {slot}
                  /\ \A t \in DOMAIN user_tasks'[u] : user_tasks'[u][t] = user_tasks[u][t]
                  /\ \A v \in Users \ {u} :
                        user_tasks'[v] = user_tasks[v] /\ user_data'[v] = user_data[v]
                  /\ jobs' = IF found
                             THEN [j \in {k \in DOMAIN jobs : k.name # slot} |-> jobs[j]]
                             ELSE jobs
                  /\ user_data'[u] = [user_data[u] EXCEPT !.delete_task_id = NoTask]
          /\ Handles("cancel_delete", u)
               => /\ user_tasks' = user_tasks
                  /\ jobs' = jobs
                  /\ user_data' = [user_data EXCEPT ![u].delete_task_id = NoTask]
      ]_vars

\* C22 witness: a confirmation has just deleted a task other than the one
\* its prompt named (a later selection replaced the slot), and the named
\* task and its job are still there.
ConfirmedDeletionWitness ==
    /\ last.event = "confirm_delete"
    /\ last.reply = "deleted"
    /\ user_data[last.user].delete_task_id = NoTask
    /\ last.about \in DOMAIN user_tasks[last.user]
    /\ JobsByName(jobs, last.about) = 1
    /\ \E v \in Users \ {last.user} : DOMAIN user_tasks[v] # {}

====
